---- MODULE Spec2Model ----
\* Voice attendance kiosk (src/app.py): the utterance parser, the attendance
\* recorder, the kiosk session loop and the dashboard queries.
\* Strings are sequences of one-character strings; datetimes are seconds
\* since day 0, 00:00:00.
EXTENDS Integers, Sequences, FiniteSets, TLC

\* ---------------------------------------------------------------------
\* Bounds
\* ---------------------------------------------------------------------
NumSessions == 2
MaxTicks == 2
MaxFrags == 5

\* ---------------------------------------------------------------------
\* Characters and Python string helpers
\* ---------------------------------------------------------------------
LowerSeq == <<"a","b","c","d","e","f","g","h","i","j","k","l","m",
              "n","o","p","q","r","s","t","u","v","w","x","y","z">>
UpperSeq == <<"A","B","C","D","E","F","G","H","I","J","K","L","M",
              "N","O","P","Q","R","S","T","U","V","W","X","Y","Z">>
Digits == {"0","1","2","3","4","5","6","7","8","9"}
Whitespace == {" ", "\t", "\n", "\r"}

IsLower(c) == \E k \in 1..26 : LowerSeq[k] = c
IsUpper(c) == \E k \in 1..26 : UpperSeq[k] = c
IsLetter(c) == IsLower(c) \/ IsUpper(c)
ToLower(c) == IF IsUpper(c) THEN LowerSeq[CHOOSE k \in 1..26 : UpperSeq[k] = c] ELSE c
ToUpper(c) == IF IsLower(c) THEN UpperSeq[CHOOSE k \in 1..26 : LowerSeq[k] = c] ELSE c

\* the character class [\w\s-] of the CLASS group
IsClassChar(c) == IsLetter(c) \/ c \in Digits \/ c = "_" \/ c \in Whitespace \/ c = "-"
\* "." of the NAME group: anything but a newline
IsDotChar(c) == c # "\n"

Slice(s, a, b) == [k \in 1..(IF b >= a THEN b - a + 1 ELSE 0) |-> s[a + k - 1]]

\* str.strip()
Strip(s) ==
    LET idx == {k \in 1..Len(s) : s[k] \notin Whitespace}
    IN  IF idx = {} THEN <<>>
        ELSE LET lo == CHOOSE k \in idx : \A m \in idx : k <= m
                 hi == CHOOSE k \in idx : \A m \in idx : k >= m
             IN  Slice(s, lo, hi)

\* str.title(): a letter is upper-cased when the previous character is not a
\* letter, lower-cased otherwise
Title(s) ==
    [k \in 1..Len(s) |->
        IF IsLetter(s[k])
        THEN IF k = 1 \/ ~IsLetter(s[k - 1]) THEN ToUpper(s[k]) ELSE ToLower(s[k])
        ELSE s[k]]

\* literal `lit` matches `s` at position p, ignoring case (re.IGNORECASE)
MatchesAt(s, lit, p) ==
    /\ p >= 1
    /\ p + Len(lit) - 1 <= Len(s)
    /\ \A k \in 1..Len(lit) : ToLower(s[p + k - 1]) = ToLower(lit[k])

\* `sub in s`, case-sensitive
Contains(s, sub) ==
    \E p \in 1..(Len(s) + 1) :
        /\ p + Len(sub) - 1 <= Len(s)
        /\ \A k \in 1..Len(sub) : s[p + k - 1] = sub[k]

\* ---------------------------------------------------------------------
\* parse_attendance
\* ---------------------------------------------------------------------
MyNameIs == <<"m","y"," ","n","a","m","e"," ","i","s"," ">>
ClassLit == <<" ","c","l","a","s","s"," ">>

\* Python's None; distinct from every string, the empty one included
None == <<"<None>">>
Truthy(x) == x # None /\ x # <<>>

\* ([\w\s-]+)$ from position p: the rest of the text, non-empty, class characters only
ClassGroupOk(text, p) ==
    /\ p <= Len(text)
    /\ \A k \in p..Len(text) : IsClassChar(text[k])

\* (.*) in place of (.*?): the last NAME length from n on after which the rest matches
RECURSIVE NameLenGreedy(_, _, _)
NameLenGreedy(text, p, n) ==
    IF p + n > Len(text) + 1 THEN -1
    ELSE LET longer == IF p + n <= Len(text) /\ IsDotChar(text[p + n])
                       THEN NameLenGreedy(text, p, n + 1) ELSE -1
         IN  IF longer >= 0 THEN longer
             ELSE IF MatchesAt(text, ClassLit, p + n)
                     /\ ClassGroupOk(text, p + n + Len(ClassLit))
                  THEN n ELSE -1

\* (.*?) from position p, trying NAME lengths n, n+1, ... (non-greedy): the
\* first length after which " class ([\w\s-]+)$" matches, or -1
RECURSIVE NameLen(_, _, _)
NameLen(text, p, n) ==
    IF p + n > Len(text) + 1 THEN -1
    ELSE IF MatchesAt(text, ClassLit, p + n) /\ ClassGroupOk(text, p + n + Len(ClassLit))
         THEN n
         ELSE IF p + n <= Len(text) /\ IsDotChar(text[p + n])
              THEN NameLen(text, p, n + 1)
              ELSE -1

\* re.search: start positions i, i+1, ...; the first one with a match
RECURSIVE Search(_, _)
Search(text, i) ==
    IF i > Len(text) THEN [found |-> FALSE]
    ELSE IF MatchesAt(text, MyNameIs, i) /\ NameLen(text, i + Len(MyNameIs), 0) >= 0
         THEN LET p == i + Len(MyNameIs)
                  n == NameLen(text, p, 0)
              IN  [found |-> TRUE,
                   group1 |-> Slice(text, p, p + n - 1),
                   group2 |-> Slice(text, p + n + Len(ClassLit), Len(text))]
         ELSE Search(text, i + 1)

parse_attendance(text) ==
    LET match == Search(text, 1)
    IN  IF match.found
        THEN [name |-> Title(Strip(match.group1)), class_name |-> Strip(match.group2)]
        ELSE [name |-> None, class_name |-> None]

\* ---------------------------------------------------------------------
\* State
\* ---------------------------------------------------------------------
VARIABLES
    now,            \* the server clock, seconds since day 0, 00:00:00
    ticks,          \* how often the clock has advanced (bounded by MaxTicks)
    table,          \* attendance_records, in insertion order
    cache,          \* st.cache_data entries of fetch_data
    listening_mode, \* st.session_state.listening_mode, per session
    pc,             \* where each session's script run stands
    status,         \* listen_for_voice's status
    name,           \* parse_attendance's name
    class_name,     \* parse_attendance's class_name
    today_dt,       \* datetime.now() of line 102
    current_dt,     \* datetime.now() of line 103
    e,              \* the exception mark_attendance caught, if any
    shown,          \* st.success / st.warning / st.error calls of the run
    dash,           \* what the dashboard's last render computed
    transcript,     \* parser check: the transcript
    parsed          \* parser check: parse_attendance(transcript), once applied

vars == <<now, ticks, table, cache, listening_mode, pc, status, name,
          class_name, today_dt, current_dt, e, shown, dash, transcript, parsed>>

Sessions == 1..NumSessions

\* ---------------------------------------------------------------------
\* Clock
\* ---------------------------------------------------------------------
SecPerDay == 86400
TTL == 60

\* datetime.date() and datetime.time()
DateOf(t) == t \div SecPerDay
TimeOf(t) == t % SecPerDay

\* strftime("%Y-%m-%d"), and MySQL's reading of such a string as a DATE
Strftime(d) == <<"%Y-%m-%d", d>>
SqlDate(str) == str[2]

\* ---------------------------------------------------------------------
\* Storage
\* ---------------------------------------------------------------------
Row(n, c, d, t) == [student_name |-> n, class_name |-> c, date |-> d, time |-> t]

SameKey(r1, r2) ==
    /\ r1.student_name = r2.student_name
    /\ r1.class_name = r2.class_name
    /\ r1.date = r2.date

\* a table without the constraint
NoConstraint(tbl, row) == FALSE

\* UNIQUE(student_name, class_name, date): the insert of row is refused
UniqueViolation(tbl, row) == \E k \in 1..Len(tbl) : SameKey(tbl[k], row)

\* REPLACE INTO: a row with the same key is overwritten
DbUpsert(tbl, row) ==
    IF UniqueViolation(tbl, row)
    THEN [ok |-> TRUE,
          table |-> [k \in 1..Len(tbl) |-> IF SameKey(tbl[k], row) THEN row ELSE tbl[k]]]
    ELSE [ok |-> TRUE, table |-> Append(tbl, row)]

\* lines 105-121: INSERT INTO attendance_records ... and commit
DbInsert(tbl, row) ==
    IF UniqueViolation(tbl, row)
    THEN [ok |-> FALSE, table |-> tbl]
    ELSE [ok |-> TRUE, table |-> Append(tbl, row)]

\* WHERE date = d: the rows of tbl[k..] on date d, in table order
RECURSIVE WhereDate(_, _, _)
WhereDate(tbl, d, k) ==
    IF k > Len(tbl) THEN <<>>
    ELSE IF tbl[k].date = d THEN <<tbl[k]>> \o WhereDate(tbl, d, k + 1)
         ELSE WhereDate(tbl, d, k + 1)

\* ORDER BY time DESC (insertion sort, stable)
RECURSIVE InsertDesc(_, _)
InsertDesc(sorted, r) ==
    IF sorted = <<>> THEN <<r>>
    ELSE IF Head(sorted).time >= r.time THEN <<Head(sorted)>> \o InsertDesc(Tail(sorted), r)
         ELSE <<r>> \o sorted
RECURSIVE OrderByTimeDesc(_)
OrderByTimeDesc(rows) ==
    IF rows = <<>> THEN <<>>
    ELSE InsertDesc(OrderByTimeDesc(Tail(rows)), Head(rows))

\* SELECT * FROM attendance_records WHERE date = :d ORDER BY time DESC
SelectByDate(tbl, dstr) == OrderByTimeDesc(WhereDate(tbl, SqlDate(dstr), 1))

\* SELECT DISTINCT class_name FROM attendance_records (one row per class, in
\* order of first appearance; ORDER BY class_name only orders the options)
RECURSIVE DistinctClasses(_, _)
DistinctClasses(tbl, k) ==
    IF k > Len(tbl) THEN <<>>
    ELSE IF \E j \in 1..(k - 1) : tbl[j].class_name = tbl[k].class_name
         THEN DistinctClasses(tbl, k + 1)
         ELSE <<[class_name |-> tbl[k].class_name]>> \o DistinctClasses(tbl, k + 1)

\* the three statements the dashboard sends
TodayQuery == "SELECT * FROM attendance_records WHERE date = :today ORDER BY time DESC"
SelectedQuery == "SELECT * FROM attendance_records WHERE date = :selected ORDER BY time DESC"
ClassesQuery == "SELECT DISTINCT class_name FROM attendance_records ORDER BY class_name"

\* pd.read_sql(text(query), conn.engine, params=params)
ReadSql(tbl, query, params) ==
    IF query = ClassesQuery THEN DistinctClasses(tbl, 1) ELSE SelectByDate(tbl, params[1])

\* @st.cache_data without a ttl: an entry is served for ever
CacheHitForEver(c, query, params, t) == <<query, params>> \in DOMAIN c

\* @st.cache_data(ttl=60): an entry is served while it is younger than ttl
CacheHit(c, query, params, t) ==
    /\ <<query, params>> \in DOMAIN c
    /\ t - c[<<query, params>>].at < TTL

\* fetch_data(query, params) at time t: the data frame and the cache afterwards
fetch_data(c, tbl, query, params, t) ==
    IF CacheHit(c, query, params, t)
    THEN [df |-> c[<<query, params>>].df, cache |-> c]
    ELSE LET df == ReadSql(tbl, query, params)
             key == <<query, params>>
         IN  [df |-> df,
              cache |-> [k \in (DOMAIN c) \cup {key} |->
                            IF k = key THEN [at |-> t, df |-> df] ELSE c[k]]]

\* entries still servable at time t (an expired entry is never served)
Live(c, t) ==
    LET keep == {k \in DOMAIN c : CacheHit(c, k[1], k[2], t)}
    IN  [k \in keep |-> c[k]]

\* ---------------------------------------------------------------------
\* mark_attendance
\* ---------------------------------------------------------------------
ER_DUP_ENTRY == 1062
DuplicateEntry == <<"D","u","p","l","i","c","a","t","e"," ","e","n","t","r","y">>

\* caught exceptions: the driver's errno, whether it is a bare
\* mysql.connector.Error (else the SQLAlchemy wrapper), and whether its text
\* carries the statement with its bound parameters
NoExc == [errno |-> 0, raw |-> FALSE, stmt |-> FALSE]
DupErrors == {[errno |-> ER_DUP_ENTRY, raw |-> TRUE, stmt |-> FALSE],
              [errno |-> ER_DUP_ENTRY, raw |-> FALSE, stmt |-> TRUE]}
OtherErrors == {[errno |-> 2013, raw |-> TRUE, stmt |-> FALSE],
                [errno |-> 2013, raw |-> FALSE, stmt |-> FALSE],
                [errno |-> 2013, raw |-> FALSE, stmt |-> TRUE]}

\* str(e): the driver's message, then the bound parameters when the wrapper
\* carries the statement
StrOf(exc, n, c) ==
    (IF exc.errno = ER_DUP_ENTRY
     THEN <<"1","0","6","2"," ">> \o DuplicateEntry \o <<" ">> \o n \o <<"-">> \o c
     ELSE <<"2","0","1","3"," ","L","o","s","t"," ","c","o","n","n","e","c","t","i","o","n">>)
    \o (IF exc.stmt THEN <<" ","[","p","a","r","a","m","e","t","e","r","s",":"," ">>
                         \o n \o <<",", " ">> \o c \o <<"]">>
        ELSE <<>>)

\* the except clauses with every caught error reported as "error"
ResultNoDuplicate(exc, n, c) ==
    IF exc = NoExc THEN "success" ELSE "error"

\* lines 122-132: the status mark_attendance returns
Result(exc, n, c) ==
    IF exc = NoExc THEN "success"
    ELSE IF exc.raw
         THEN IF exc.errno = ER_DUP_ENTRY THEN "warning" ELSE "error"
         ELSE IF Contains(StrOf(exc, n, c), DuplicateEntry) THEN "warning" ELSE "error"

\* line 178 with "is not None" in place of truthiness
CallsMarkIfNotNone(n, c) == n # None /\ c # None

\* line 178: if name and class_name
CallsMark(n, c) == Truthy(n) /\ Truthy(c)

\* lines 182-188: the widget the insert status is shown with
Display(insert_status) ==
    IF insert_status = "success" THEN "success"
    ELSE IF insert_status = "warning" THEN "warning"
    ELSE "error"

\* ---------------------------------------------------------------------
\* Inputs
\* ---------------------------------------------------------------------
Bob == <<"b","o","b">>
Asha == <<"a","s","h","a">>
C3a == <<"3","a">>
All == <<"A","l","l">>

\* what the speech service may hand to the kiosk
KioskTranscripts ==
    { <<"M","y"," ","n","a","m","e"," ","i","s"," ">> \o Bob \o ClassLit \o C3a,
      MyNameIs \o Asha \o ClassLit \o DuplicateEntry,
      <<"h","e","l","l","o"," ","t","h","e","r","e">>,
      MyNameIs \o ClassLit \o C3a,
      MyNameIs \o Bob \o ClassLit \o <<" ">> }

\* parse_attendance over the kiosk's transcripts
KioskParse == [t \in KioskTranscripts |-> parse_attendance(t)]

\* the transcripts both of whose fields parse non-empty
WellFormed == {t \in KioskTranscripts : CallsMark(KioskParse[t].name, KioskParse[t].class_name)}

\* lines 56-61 sit outside the try: an error there leaves listen_for_voice
\* uncaught ("mic_error"); lines 70-77 catch the rest
CaughtCaptureErrors == {"timeout", "unknown_value", "request_error", "other_error"}

\* the clock starts one second before midnight of day 1
Start == 2 * SecPerDay - 1
\* how far the clock moves in one step: a second, or the cache's ttl
Seconds == {1}
Expiry == {1, TTL}

\* the table may hold records of earlier days when the app starts
InitialTables == { <<>>, << Row(Title(Bob), C3a, 0, 32400) >> }

NotRendered ==
    [rendered |-> FALSE, asof |-> 0, today |-> 0, today_df |-> <<>>,
     today_hit |-> FALSE, today_age |-> 0,
     selected_date |-> 0, selected_class |-> All, filtered_df |-> <<>>]

\* ---------------------------------------------------------------------
\* Initial state
\* ---------------------------------------------------------------------
InitCommon ==
    /\ now = Start
    /\ ticks = 0
    /\ cache = << >>
    /\ listening_mode = [s \in Sessions |-> FALSE]
    /\ pc = [s \in Sessions |-> "idle"]
    /\ status = [s \in Sessions |-> ""]
    /\ name = [s \in Sessions |-> None]
    /\ class_name = [s \in Sessions |-> None]
    /\ today_dt = [s \in Sessions |-> -1]
    /\ current_dt = [s \in Sessions |-> -1]
    /\ e = [s \in Sessions |-> NoExc]
    /\ shown = [s \in Sessions |-> <<>>]
    /\ dash = NotRendered

Init ==
    /\ InitCommon
    /\ table \in InitialTables
    /\ transcript = <<>>
    /\ parsed = [done |-> FALSE, name |-> None, class_name |-> None]

\* ---------------------------------------------------------------------
\* Kiosk session (tab1)
\* ---------------------------------------------------------------------
ClearRun(s) ==
    /\ status' = [status EXCEPT ![s] = ""]
    /\ name' = [name EXCEPT ![s] = None]
    /\ class_name' = [class_name EXCEPT ![s] = None]
    /\ today_dt' = [today_dt EXCEPT ![s] = -1]
    /\ current_dt' = [current_dt EXCEPT ![s] = -1]
    /\ e' = [e EXCEPT ![s] = NoExc]
    /\ shown' = [shown EXCEPT ![s] = <<>>]

\* lines 158-160: Start Attendance Session
StartSession(s) ==
    /\ pc[s] \in {"idle", "halted"}
    /\ listening_mode' = [listening_mode EXCEPT ![s] = TRUE]
    /\ pc' = [pc EXCEPT ![s] = "listen"]
    /\ ClearRun(s)
    /\ UNCHANGED <<now, ticks, table, cache, dash, transcript, parsed>>

\* lines 162-164: Stop Session
StopSession(s) ==
    /\ pc[s] \in {"listen", "sleep", "halted"}
    /\ listening_mode' = [listening_mode EXCEPT ![s] = FALSE]
    /\ pc' = [pc EXCEPT ![s] = "idle"]
    /\ ClearRun(s)
    /\ UNCHANGED <<now, ticks, table, cache, dash, transcript, parsed>>

\* lines 56-61: the microphone cannot be opened or sampled; the exception
\* leaves the script run, nothing is displayed and line 197 is not reached
ListenCrash(s) ==
    /\ pc[s] = "listen"
    /\ listening_mode[s]
    /\ pc' = [pc EXCEPT ![s] = "halted"]
    /\ UNCHANGED <<now, ticks, table, cache, listening_mode, status, name,
                   class_name, today_dt, current_dt, e, shown, dash, transcript, parsed>>

\* lines 70-77, 192-193: a caught capture error
ListenError(s) ==
    /\ pc[s] = "listen"
    /\ listening_mode[s]
    /\ \E o \in CaughtCaptureErrors :
          status' = [status EXCEPT ![s] = IF o \in CaughtCaptureErrors THEN "error" ELSE "success"]
    /\ shown' = [shown EXCEPT ![s] = Append(shown[s], "error")]
    /\ pc' = [pc EXCEPT ![s] = "sleep"]
    /\ UNCHANGED <<now, ticks, table, cache, listening_mode, name, class_name,
                   today_dt, current_dt, e, dash, transcript, parsed>>

\* lines 66-69, 172-180, 190 and 102: a transcript, parsed; either the
\* "could not extract" error, or mark_attendance is entered and reads the date
ListenParse(s, heard) ==
    /\ pc[s] = "listen"
    /\ listening_mode[s]
    /\ \E t \in heard :
          LET p == KioskParse[t]
          IN  /\ status' = [status EXCEPT ![s] = "success"]
              /\ name' = [name EXCEPT ![s] = p.name]
              /\ class_name' = [class_name EXCEPT ![s] = p.class_name]
              /\ IF CallsMark(p.name, p.class_name)
                 THEN /\ today_dt' = [today_dt EXCEPT ![s] = now]
                      /\ pc' = [pc EXCEPT ![s] = "time"]
                      /\ shown' = shown
                 ELSE /\ today_dt' = today_dt
                      /\ pc' = [pc EXCEPT ![s] = "sleep"]
                      /\ shown' = [shown EXCEPT ![s] = Append(shown[s], "error")]
    /\ UNCHANGED <<now, ticks, table, cache, listening_mode, current_dt, e, dash,
                   transcript, parsed>>

\* line 103: current_time = datetime.now().time()
ReadTime(s) ==
    /\ pc[s] = "time"
    /\ current_dt' = [current_dt EXCEPT ![s] = now]
    /\ pc' = [pc EXCEPT ![s] = "insert"]
    /\ UNCHANGED <<now, ticks, table, cache, listening_mode, status, name,
                   class_name, today_dt, e, shown, dash, transcript, parsed>>

\* the row lines 112-120 bind
NewRow(s) == Row(name[s], class_name[s], DateOf(today_dt[s]), TimeOf(current_dt[s]))

\* lines 110-132 and 182-188: execute and commit, the result shown
Finish(s, exc, tbl) ==
    /\ table' = tbl
    /\ e' = [e EXCEPT ![s] = exc]
    /\ shown' = [shown EXCEPT ![s] =
                    Append(shown[s], Display(Result(exc, name[s], class_name[s])))]
    /\ today_dt' = [today_dt EXCEPT ![s] = -1]
    /\ current_dt' = [current_dt EXCEPT ![s] = -1]
    /\ pc' = [pc EXCEPT ![s] = "sleep"]
    /\ UNCHANGED <<now, ticks, cache, listening_mode, status, name,
                   class_name, dash, transcript, parsed>>

\* the insert reaches the table: committed, or refused as a duplicate
InsertRow(s) ==
    /\ pc[s] = "insert"
    /\ LET r == DbInsert(table, NewRow(s))
       IN  IF r.ok THEN Finish(s, NoExc, r.table)
           ELSE \E exc \in DupErrors : Finish(s, exc, r.table)

\* the insert fails for another reason (the connection is lost): no row
InsertFails(s) ==
    /\ pc[s] = "insert"
    /\ \E exc \in OtherErrors : Finish(s, exc, table)

\* lines 195-197: the pause, then st.rerun()
Rerun(s) ==
    /\ pc[s] = "sleep"
    /\ pc' = [pc EXCEPT ![s] = "listen"]
    /\ ClearRun(s)
    /\ UNCHANGED <<now, ticks, table, cache, listening_mode, dash, transcript, parsed>>

\* time passes
Tick(steps) ==
    /\ ticks < MaxTicks
    /\ \E d \in steps :
          /\ now' = now + d
          /\ cache' = Live(cache, now + d)
    /\ ticks' = ticks + 1
    /\ UNCHANGED <<table, listening_mode, pc, status, name, class_name,
                   today_dt, current_dt, e, shown, dash, transcript, parsed>>

\* ---------------------------------------------------------------------
\* Dashboard (tab2), rendered by a script run of a stopped session
\* ---------------------------------------------------------------------
\* line 243: filtered_df[filtered_df['class_name'] == selected_class]
RECURSIVE WhereClass(_, _)
WhereClass(df, c) ==
    IF df = <<>> THEN <<>>
    ELSE IF Head(df).class_name = c THEN <<Head(df)>> \o WhereClass(Tail(df), c)
         ELSE WhereClass(Tail(df), c)

\* lines 231-246: filtered_df, and the cache after the fetch it may make
Filtered(c, tbl, today_df, selected_date, selected_class, t) ==
    IF today_df # <<>>
    THEN LET byDate == IF selected_date = DateOf(t)
                       THEN [df |-> today_df, cache |-> c]
                       ELSE fetch_data(c, tbl, SelectedQuery, <<Strftime(selected_date)>>, t)
         IN  [df |-> IF selected_class # All THEN WhereClass(byDate.df, selected_class)
                     ELSE byDate.df,
              cache |-> byDate.cache]
    ELSE [df |-> <<>>, cache |-> c]

\* lines 209-246: one render, for the date and class the viewer has selected
Dashboard(s) ==
    /\ pc[s] = "idle"
    /\ LET today == fetch_data(cache, table, TodayQuery, <<Strftime(DateOf(now))>>, now)
           classes == fetch_data(today.cache, table, ClassesQuery, <<>>, now)
           class_list == {All} \cup {classes.df[k].class_name : k \in 1..Len(classes.df)}
       IN  \E selected_date \in 0..DateOf(now), selected_class \in class_list :
              LET f == Filtered(classes.cache, table, today.df, selected_date,
                                selected_class, now)
              IN  /\ cache' = f.cache
                  /\ dash' = [rendered |-> TRUE, asof |-> Len(table),
                              today |-> DateOf(now), today_df |-> today.df,
                              today_hit |-> CacheHit(cache, TodayQuery,
                                               <<Strftime(DateOf(now))>>, now),
                              today_age |-> now - today.cache[<<TodayQuery,
                                               <<Strftime(DateOf(now))>>>>].at,
                              selected_date |-> selected_date,
                              selected_class |-> selected_class,
                              filtered_df |-> f.df]
    /\ UNCHANGED <<now, ticks, table, listening_mode, pc, status, name, class_name,
                   today_dt, current_dt, e, shown, transcript, parsed>>

\* lines 218-220: a query fails, st.error and st.stop()
DashboardFails(s) ==
    /\ pc[s] = "idle"
    /\ dash' = NotRendered
    /\ UNCHANGED <<now, ticks, table, cache, listening_mode, pc, status, name,
                   class_name, today_dt, current_dt, e, shown, transcript, parsed>>

Kiosk(s) ==
    \/ StartSession(s)
    \/ StopSession(s)
    \/ ListenCrash(s)
    \/ ListenError(s)
    \/ ListenParse(s, KioskTranscripts)
    \/ ReadTime(s)
    \/ InsertRow(s)
    \/ InsertFails(s)
    \/ Rerun(s)

\* one kiosk
Solo == {CHOOSE s \in Sessions : \A t \in Sessions : s <= t}

Next ==
    \/ \E s \in Solo : Kiosk(s)
    \/ Tick(Seconds)

Spec == Init /\ [][Next]_vars

\* several kiosks at once, each making one attempt, storage and capture working
RaceNext ==
    \/ \E s \in Sessions :
          \/ StartSession(s)
          \/ ListenParse(s, WellFormed)
          \/ ReadTime(s)
          \/ InsertRow(s)
    \/ Tick(Seconds)

RaceSpec == Init /\ [][RaceNext]_vars

\* one kiosk making one attempt, and one viewer of the dashboard
Viewer == {CHOOSE s \in Sessions : \A t \in Sessions : s >= t}

\* the dashboard is opened on a table that holds a record of an earlier day
DashInit ==
    /\ InitCommon
    /\ table \in InitialTables \ {<<>>}
    /\ transcript = <<>>
    /\ parsed = [done |-> FALSE, name |-> None, class_name |-> None]

\* the kiosk hears a student of another class than the one on record
NewClass == {t \in WellFormed : \A tbl \in InitialTables : \A k \in 1..Len(tbl) :
                                   tbl[k].class_name # KioskParse[t].class_name}

DashNext ==
    \/ \E s \in Solo :
          \/ StartSession(s)
          \/ ListenParse(s, NewClass)
          \/ ReadTime(s)
          \/ InsertRow(s)
    \/ \E s \in Viewer : Dashboard(s) \/ DashboardFails(s)
    \/ Tick(Expiry)

DashSpec == DashInit /\ [][DashNext]_vars

\* ---------------------------------------------------------------------
\* The parser alone, over transcripts built from fragments
\* ---------------------------------------------------------------------
Fragments ==
    { <<"M","y"," ","N","A","M","E"," ","i","s"," ">>, <<" ","C","l","a","s","S"," ">>,
      <<"b","O","b">>, <<"3","-","a">>, <<".">>, <<" ">> }

\* every concatenation of at most n fragments
RECURSIVE Texts(_)
Texts(n) ==
    IF n = 0 THEN {<<>>}
    ELSE LET shorter == Texts(n - 1)
         IN  shorter \cup {t \o f : t \in shorter, f \in Fragments}

ParseInit ==
    /\ InitCommon
    /\ table = <<>>
    /\ transcript \in Texts(MaxFrags)
    /\ parsed = [done |-> FALSE, name |-> None, class_name |-> None]

\* lines 79-96: parse_attendance(text)
Parse ==
    /\ ~parsed.done
    /\ LET p == parse_attendance(transcript)
       IN  parsed' = [done |-> TRUE, name |-> p.name, class_name |-> p.class_name]
    /\ UNCHANGED <<now, ticks, table, cache, listening_mode, pc, status, name,
                   class_name, today_dt, current_dt, e, shown, dash, transcript>>

ParseSpec == ParseInit /\ [][Parse]_vars

\* ---------------------------------------------------------------------
\* Properties
\* ---------------------------------------------------------------------
Statuses == {"success", "warning", "error"}
RowsOf(df) == {df[k] : k \in 1..Len(df)}
\* the rows committed when the dashboard last rendered (the table only grows)
RowsAsOf(n) == {table[k] : k \in 1..n}
HasKey(tbl, row) == \E k \in 1..Len(tbl) : SameKey(tbl[k], row)

\* C1: in every reachable state, whatever the interleaving of the sessions'
\* mark_attendance calls, no two records of the table share
\* (studentName, className, date).
C1_UniqueTriple ==
    \A i, j \in 1..Len(table) : SameKey(table[i], table[j]) => i = j

\* two sessions have recorded the same student and class on one date: one was
\* Created, the other refused as a duplicate
C1_Witness ==
    \E s, t \in Sessions :
        /\ s # t
        /\ pc[s] = "sleep" /\ pc[t] = "sleep"
        /\ name[s] = name[t] /\ class_name[s] = class_name[t]
        /\ e[s] = NoExc
        /\ e[t] \in DupErrors

\* C2: a mark_attendance call in which storage does not fail returns Created
\* ("success") exactly when no record with its (name, className, date) existed
\* before the insert, and Duplicate ("warning") otherwise.
C2_CreatedIffNew ==
    [][\A s \in Sessions :
          (pc[s] = "insert" /\ pc'[s] = "sleep" /\ e'[s] \notin OtherErrors)
          => IF HasKey(table, NewRow(s))
             THEN shown'[s] = <<"warning">>
             ELSE shown'[s] = <<"success">>]_vars

\* a student is on record on two dates, and a repeated call was a Duplicate
C2_Witness ==
    /\ \E i, j \in 1..Len(table) :
          /\ table[i].student_name = table[j].student_name
          /\ table[i].class_name = table[j].class_name
          /\ table[i].date # table[j].date
    /\ \E s \in Sessions :
          /\ pc[s] = "sleep"
          /\ shown[s] = <<"warning">>
          /\ e[s] \in DupErrors

\* C3: the table changes only by a Created outcome, which appends exactly one
\* row (the one the call bound); every other attempt leaves it as it was and
\* no existing row is modified or removed.
C3_OnlyCreatedAppends ==
    [][table' # table =>
          \E s \in Sessions :
              /\ pc[s] = "insert"
              /\ shown'[s] = <<"success">>
              /\ table' = Append(table, NewRow(s))]_vars

\* after a Created outcome, an attempt ended in a storage failure
C3_Witness ==
    /\ Len(table) >= 2
    /\ \E s \in Sessions : pc[s] = "sleep" /\ e[s] \in OtherErrors

\* C4 as claimed: the dashboard's read of today's records holds no row before
\* any insert for today and holds every row committed for today before the read.
C4_ReadsReflectCommits ==
    dash.rendered =>
        RowsOf(dash.today_df) = {r \in RowsAsOf(dash.asof) : r.date = dash.today}

\* C4 amended: the read holds only rows committed for today (none before any
\* insert for today), it holds all of them when it was not served from the
\* cache, and a cached result is less than TTL seconds old.
C4_ReadsReflectCommitsUnlessCached ==
    dash.rendered =>
        /\ RowsOf(dash.today_df) \subseteq {r \in RowsAsOf(dash.asof) : r.date = dash.today}
        /\ ~dash.today_hit =>
              RowsOf(dash.today_df) = {r \in RowsAsOf(dash.asof) : r.date = dash.today}
        /\ dash.today_age < TTL

\* a render served today's records from the cache and missed a committed row
C4_Witness ==
    /\ dash.rendered
    /\ dash.today_hit
    /\ dash.today_age > 0
    /\ \E r \in RowsAsOf(dash.asof) : r.date = dash.today /\ r \notin RowsOf(dash.today_df)

\* C5: the records displayed for a selected date are exactly the stored
\* records of that date, restricted to the selected class unless it is "All",
\* whatever the table holds for other dates.
C5_ShowsSelectedDate ==
    dash.rendered =>
        RowsOf(dash.filtered_df) =
            {r \in RowsAsOf(dash.asof) :
                /\ r.date = dash.selected_date
                /\ dash.selected_class # All => r.class_name = dash.selected_class}

\* C6: while a session is started, every capture attempt ends with exactly one
\* display status in {success, warning, error} and the loop goes on to the
\* next attempt: no failure ends it.
C6_NoFailureEndsLoop ==
    \A s \in Sessions :
        /\ pc[s] = "sleep" => Len(shown[s]) = 1 /\ shown[s][1] \in Statuses
        /\ listening_mode[s] => pc[s] # "halted"

\* C7: mark_attendance returns Duplicate ("warning") only for a violation of
\* the uniqueness constraint; every other storage error returns Failure ("error").
C7_WarningOnlyForDuplicate ==
    \A s \in Sessions :
        pc[s] = "sleep" =>
            /\ shown[s] = <<"warning">> => e[s] \in DupErrors
            /\ e[s] \in OtherErrors => shown[s] = <<"error">>

\* C8: mark_attendance is entered only with a non-empty name and a non-empty
\* className, and every record of the table has both non-empty.
C8_NonEmptyFields ==
    /\ \A s \in Sessions :
          pc[s] \in {"time", "insert"} =>
              /\ name[s] # None /\ name[s] # <<>>
              /\ class_name[s] # None /\ class_name[s] # <<>>
    /\ \A k \in 1..Len(table) :
          /\ table[k].student_name # None /\ table[k].student_name # <<>>
          /\ table[k].class_name # None /\ table[k].class_name # <<>>

\* a transcript whose NAME capture is empty was matched and turned away
C8_Witness ==
    \E s \in Sessions :
        /\ pc[s] = "sleep"
        /\ name[s] = <<>>
        /\ class_name[s] # None /\ class_name[s] # <<>>
        /\ shown[s] = <<"error">>

\* C10: the date and the time of a record are taken from one instant: the
\* stored time is a time of day read on the stored date.
C10_DateAndTimeOfOneInstant ==
    \A s \in Sessions :
        pc[s] = "insert" => DateOf(current_dt[s]) = DateOf(today_dt[s])

\* positions of the parser check
FirstNameIs(t) ==
    CHOOSE i \in 1..Len(t) :
        /\ MatchesAt(t, MyNameIs, i)
        /\ \A j \in 1..(i - 1) : ~MatchesAt(t, MyNameIs, j)
ClassTokens(t) ==
    {j \in (FirstNameIs(t) + Len(MyNameIs))..Len(t) : MatchesAt(t, ClassLit, j)}
\* the " class " tokens followed, to the end, by one or more of [\w\s-] only
ClosingClassTokens(t) ==
    {j \in ClassTokens(t) :
        /\ j + Len(ClassLit) <= Len(t)
        /\ \A k \in (j + Len(ClassLit))..Len(t) : IsClassChar(t[k])}
First(S) == CHOOSE j \in S : \A k \in S : j <= k
SplitAt(t, j) ==
    [done |-> TRUE,
     name |-> Title(Strip(Slice(t, FirstNameIs(t) + Len(MyNameIs), j - 1))),
     class_name |-> Strip(Slice(t, j + Len(ClassLit), Len(t)))]

\* C9 as claimed: for a matched transcript, NAME ends at the first " class "
\* after "my name is ".
C9_NameEndsAtFirstClass ==
    (parsed.done /\ parsed.name # None) =>
        parsed = SplitAt(transcript, First(ClassTokens(transcript)))

\* C9 amended: for a matched transcript, NAME ends at the first " class "
\* that only [\w\s-] characters (one or more) follow to the end of the
\* transcript; a transcript with no such token is not matched.
C9_NameEndsAtFirstClosingClass ==
    parsed.done =>
        IF /\ \E i \in 1..Len(transcript) : MatchesAt(transcript, MyNameIs, i)
           /\ ClosingClassTokens(transcript) # {}
        THEN parsed = SplitAt(transcript, First(ClosingClassTokens(transcript)))
        ELSE parsed.name = None /\ parsed.class_name = None

\* a matched transcript whose NAME runs past the first " class "
C9_Witness ==
    /\ parsed.done
    /\ parsed.name # None
    /\ First(ClosingClassTokens(transcript)) # First(ClassTokens(transcript))

====
